---- MODULE Spec2Model ----
(***************************************************************************)
(* The interrupt controller of the STM32 emulator                          *)
(* (src/src/peripherals/nvic.rs): the pending set, the SysTick timer, the  *)
(* scheduling check, exception entry and exception exit, driven by the     *)
(* emulation driver and by the firmware running on the emulated CPU.       *)
(*                                                                         *)
(* Representation.                                                         *)
(*  - A 32-bit word is a pair <<hi, lo>> of 16-bit halves, so that values  *)
(*    at and above 2^31 (0xFFFF_FFFD, an interrupt number written as u64)  *)
(*    are exact.                                                           *)
(*  - The u128 bitmask `pending` is the set of its set bit positions       *)
(*    (0..127): `|= 1 << b` is the union with {b}, `&= !(1 << b)` removes  *)
(*    b, trailing_zeros is the minimum.  The conversion between interrupt  *)
(*    numbers and bit positions (IRQ_OFFSET) is modelled as the code does  *)
(*    it.                                                                  *)
(*  - Option<T> is a set with at most one element: None is {}.             *)
(*  - A panic (assert!, unwrap, expect, an overflow check) ends the        *)
(*    program: `fatal` names it, and no operation runs after it.  What the *)
(*    code had written before the panic stays written.                     *)
(*  - overflow_checks is the build's choice (debug or release profile):    *)
(*    an arithmetic overflow panics when it is on and wraps when it is     *)
(*    off.                                                                 *)
(***************************************************************************)
EXTENDS Integers, Sequences, FiniteSets, TLC

VARIABLES
    systick_period,        \* Option<u32>: {} or {period}
    last_systick_trigger,  \* u64
    pending,               \* u128 bitmask, as the set of its set bits
    in_interrupt,          \* bool
    NUM_INSTRUCTIONS,      \* the emulator's global instruction counter
    regs,                  \* the CPU's registers, register name -> word
    ram,                   \* the stack's memory, address -> byte
    fatal,                 \* "none", or the panic that ended the program
    overflow_checks,       \* the build profile's overflow checks
    last,                  \* history: the last operation and what it did
    snap,                  \* history: the CPU state around the last entry
    checks,                \* history: the scheduling checks made so far
    uc_borrow,             \* the borrow state of sys.uc, a RefCell
    pc,                    \* the controller's position inside an operation
    armed                  \* history: the interrupts asserted and not yet entered

vars == <<systick_period, last_systick_trigger, pending, in_interrupt,
          NUM_INSTRUCTIONS, regs, ram, fatal, overflow_checks, last, snap,
          checks, uc_borrow, pc, armed>>

----------------------------------------------------------------------------
(* Program constants *)

IRQ_OFFSET == 16
PENDSV == -2
SYSTICK == -1
\* The width of `pending: u128`.
PENDING_BITS == 128
\* 0xFFFF_FFFD, "This value means return from interrupt."
EXC_RETURN == <<65535, 65533>>

CONTEXT_REGS ==
    << "FPSCR",
       "S15", "S14", "S13", "S12", "S11", "S10", "S9", "S8",
       "S7", "S6", "S5", "S4", "S3", "S2", "S1", "S0",
       "XPSR", "PC", "LR", "R12", "R3", "R2", "R1", "R0" >>

----------------------------------------------------------------------------
(* Bounds of the model *)

\* The instruction counter stops at MaxInstr.
MaxInstr == 4
\* The SysTick periods the driver configures are 1..MaxPeriod.
MaxPeriod == 1
\* The driver makes at most MaxChecks scheduling checks in the runs that
\* explore the exception frame.
MaxChecks == 2
\* The firmware's register contents are drawn from patterns 1..NumPatterns.
NumPatterns == 2
\* The stack region holds RamWords words.
RamWords == 28
\* In the runs with a period of 1000 instructions the instruction counter
\* stops at MaxBlockInstr.
MaxBlockInstr == 3000

----------------------------------------------------------------------------
(* 32-bit words and addresses *)

W16 == 256 * 256

\* Addresses are numbers.  The code computes them in u64 (sp) and u32 (the
\* vector slot); this model keeps every address the controller computes far
\* from both ends of those ranges and below 2^31.  ToAddr is the address a
\* register holds, ToWord the register contents for an address.
ToAddr(w) == w[1] * W16 + w[2]
ToWord(a) == << a \div W16, a % W16 >>

\* A variant that stores the most significant byte first.
to_le_bytes_BE(w) ==
    << w[1] \div 256, w[1] % 256, w[2] \div 256, w[2] % 256 >>

\* u32::to_le_bytes: least significant byte first.
to_le_bytes(w) ==
    << w[2] % 256, w[2] \div 256, w[1] % 256, w[1] \div 256 >>

\* u32::from_le_bytes
from_le_bytes(b) ==
    << b[3] + 256 * b[4], b[1] + 256 * b[2] >>

\* `irq as u64` written to a 32-bit register: the two's complement word.
IrqAsWord(irq) ==
    IF irq >= 0 THEN <<0, irq>> ELSE <<W16 - 1, W16 + irq>>

----------------------------------------------------------------------------
(* The emulated memory map: a stack region in RAM, and the vector table in *)
(* flash, which the controller only reads.                                 *)

\* 0x1FFF_FFC0: the stack region straddles a 64 KiB boundary.  `ram` holds
\* its bytes in address order: ram[i] is the byte at StackLow + i - 1.
StackLow == 8191 * W16 + 65472
RamSize == 4 * RamWords
StackTop == StackLow + RamSize

InRam(a) == a >= StackLow /\ a < StackTop

\* The stack pointers the firmware may run with: the top of the region (more
\* than a frame below it), exactly one frame above the bottom, and one word
\* less than a frame above the bottom.
StackPointers == { StackTop, StackLow + 100, StackLow + 96 }

\* 0x0800_0000, and the 128 vector slots that follow.
FlashBase == 2048 * W16
InFlash(a) == a >= FlashBase /\ a < FlashBase + 4 * PENDING_BITS

\* The handler address the firmware image stores in vector slot `bit`:
\* 0x0800_1000 for SysTick.
HandlerAddr(bit) ==
    IF bit = IRQ_OFFSET + SYSTICK THEN <<2048, 4096>>
    ELSE <<2048, 8192 + 16 * bit + 1>>

FlashByte(a) ==
    to_le_bytes(HandlerAddr((a - FlashBase) \div 4))[((a - FlashBase) % 4) + 1]

\* A vector table base in unmapped memory (0x0800_0400).
BadVectorBase == FlashBase + 1024
VectorBases == { FlashBase, BadVectorBase }

\* uc.mem_read of 4 bytes: an error unless all four are mapped.
mem_read(m, addr) ==
    IF InRam(addr) /\ InRam(addr + 3)
    THEN LET k == addr - StackLow IN
         [ok |-> TRUE, bytes |-> << m[k + 1], m[k + 2], m[k + 3], m[k + 4] >>]
    ELSE IF InFlash(addr) /\ InFlash(addr + 3)
    THEN [ok |-> TRUE,
          bytes |-> << FlashByte(addr), FlashByte(addr + 1),
                       FlashByte(addr + 2), FlashByte(addr + 3) >>]
    ELSE [ok |-> FALSE, bytes |-> <<0, 0, 0, 0>>]

\* uc.mem_write of 4 bytes.  The controller writes only below the stack
\* pointer, which this model keeps around the stack region.
mem_write(m, addr, bytes) ==
    IF InRam(addr) /\ InRam(addr + 3)
    THEN LET k == addr - StackLow IN
         [ok |-> TRUE,
          ram |-> [m EXCEPT ![k + 1] = bytes[1], ![k + 2] = bytes[2],
                            ![k + 3] = bytes[3], ![k + 4] = bytes[4]]]
    ELSE [ok |-> FALSE, ram |-> m]

----------------------------------------------------------------------------
(* The CPU's registers *)

RegNames == { CONTEXT_REGS[i] : i \in 1 .. Len(CONTEXT_REGS) }
               \cup { "SP", "IPSR", "PRIMASK" }

\* Register contents the firmware may leave: every register differs from
\* every other and every byte of a word matters.
PatternWord(p, i) ==
    << (p * 30011 + i * 257) % W16, (p * 4099 + i * 263 + 7) % W16 >>

IndexOf(r) == CHOOSE i \in 1 .. Len(CONTEXT_REGS) : CONTEXT_REGS[i] = r

PatternRegs(p, sp, primask) ==
    [r \in RegNames |->
        IF r = "SP" THEN ToWord(sp)
        ELSE IF r = "IPSR" THEN <<0, 0>>
        ELSE IF r = "PRIMASK" THEN <<0, primask>>
        ELSE PatternWord(p, IndexOf(r))]

----------------------------------------------------------------------------
(* Nvic: the pending set *)

\* A variant that flips the bit (^= in place of |=).
set_intr_pending_Toggle(p, irq) ==
    LET bit == IRQ_OFFSET + irq IN
    IF ~(bit > 0) THEN [pending |-> p, fatal |-> "assert bit > 0"]
    ELSE IF bit >= PENDING_BITS
    THEN [pending |-> p, fatal |-> "shift overflow"]
    ELSE [pending |-> IF bit \in p THEN p \ {bit} ELSE p \cup {bit},
          fatal |-> "none"]

\* A variant that shifts by one bit less.
set_intr_pending_NoOffset(p, irq) ==
    LET bit == IRQ_OFFSET + irq IN
    IF ~(bit > 0) THEN [pending |-> p, fatal |-> "assert bit > 0"]
    ELSE IF bit >= PENDING_BITS
    THEN [pending |-> p, fatal |-> "shift overflow"]
    ELSE [pending |-> p \cup {bit - 1}, fatal |-> "none"]

\* pub fn set_intr_pending(&mut self, irq: i32)
\* `1 << bit` on u128 with bit >= 128: a panic with overflow checks, a shift
\* by bit % 128 without.
set_intr_pending(p, irq) ==
    LET bit == IRQ_OFFSET + irq IN
    IF ~(bit > 0) THEN [pending |-> p, fatal |-> "assert bit > 0"]
    ELSE IF bit >= PENDING_BITS
    THEN IF overflow_checks
         THEN [pending |-> p, fatal |-> "shift overflow"]
         ELSE [pending |-> p \cup {bit % PENDING_BITS}, fatal |-> "none"]
    ELSE [pending |-> p \cup {bit}, fatal |-> "none"]

\* u128::trailing_zeros of a non-zero mask: the lowest set bit.
trailing_zeros(p) == CHOOSE b \in p : \A c \in p : b <= c

\* A variant that clears the whole mask.
get_and_clear_next_intr_pending_ClearsAll(p) ==
    IF p # {}
    THEN LET bit == trailing_zeros(p) IN
         [pending |-> {}, ret |-> {bit - IRQ_OFFSET}]
    ELSE [pending |-> p, ret |-> {}]

\* A variant that takes the highest set bit.
get_and_clear_next_intr_pending_Highest(p) ==
    IF p # {}
    THEN LET bit == CHOOSE b \in p : \A c \in p : b >= c IN
         [pending |-> p \ {bit}, ret |-> {bit - IRQ_OFFSET}]
    ELSE [pending |-> p, ret |-> {}]

\* pub fn get_and_clear_next_intr_pending(&mut self) -> Option<i32>
get_and_clear_next_intr_pending(p) ==
    IF p # {}
    THEN LET bit == trailing_zeros(p) IN
         [pending |-> p \ {bit}, ret |-> {bit - IRQ_OFFSET}]
    ELSE [pending |-> p, ret |-> {}]

----------------------------------------------------------------------------
(* Nvic: the SysTick timer *)

\* A variant that moves the trigger point on by one period.
maybe_set_systick_intr_pending_StepByPeriod(period, lastT, p, n) ==
    IF period = {}
    THEN [last_systick_trigger |-> lastT, pending |-> p,
          fatal |-> "none", fired |-> FALSE]
    ELSE LET systick_period_v == CHOOSE x \in period : TRUE IN
         IF systick_period_v < n - lastT
         THEN [last_systick_trigger |-> lastT + systick_period_v,
               pending |-> set_intr_pending(p, SYSTICK).pending,
               fatal |-> "none", fired |-> TRUE]
         ELSE [last_systick_trigger |-> lastT, pending |-> p,
               fatal |-> "none", fired |-> FALSE]

\* A variant that takes no period for a period of 0.
maybe_set_systick_intr_pending_DefaultZero(period, lastT, p, n) ==
    IF 0 < n - lastT
    THEN [last_systick_trigger |-> n,
          pending |-> set_intr_pending(p, SYSTICK).pending,
          fatal |-> "none", fired |-> TRUE]
    ELSE [last_systick_trigger |-> lastT, pending |-> p,
          fatal |-> "none", fired |-> FALSE]

\* A variant that asserts PendSV when the period has elapsed.
maybe_set_systick_intr_pending_PendSV(period, lastT, p, n) ==
    IF period = {}
    THEN [last_systick_trigger |-> lastT, pending |-> p,
          fatal |-> "none", fired |-> FALSE]
    ELSE LET systick_period_v == CHOOSE x \in period : TRUE IN
         IF systick_period_v < n - lastT
         THEN [last_systick_trigger |-> n,
               pending |-> set_intr_pending(p, PENDSV).pending,
               fatal |-> "none", fired |-> TRUE]
         ELSE [last_systick_trigger |-> lastT, pending |-> p,
               fatal |-> "none", fired |-> FALSE]

\* A variant that stores the next deadline, n + period, as the trigger point.
maybe_set_systick_intr_pending_NextDeadline(period, lastT, p, n) ==
    IF period = {}
    THEN [last_systick_trigger |-> lastT, pending |-> p,
          fatal |-> "none", fired |-> FALSE]
    ELSE LET systick_period_v == CHOOSE x \in period : TRUE
             underflow == n < lastT
         IN
         IF underflow /\ overflow_checks
         THEN [last_systick_trigger |-> lastT, pending |-> p,
               fatal |-> "subtract overflow", fired |-> FALSE]
         ELSE IF underflow \/ systick_period_v < n - lastT
         THEN [last_systick_trigger |-> n + systick_period_v,
               pending |-> set_intr_pending(p, SYSTICK).pending,
               fatal |-> "none", fired |-> TRUE]
         ELSE [last_systick_trigger |-> lastT, pending |-> p,
               fatal |-> "none", fired |-> FALSE]

\* A variant that fires as soon as a full period has elapsed (<= for <).
maybe_set_systick_intr_pending_AtLeast(period, lastT, p, n) ==
    IF period = {}
    THEN [last_systick_trigger |-> lastT, pending |-> p,
          fatal |-> "none", fired |-> FALSE]
    ELSE LET systick_period_v == CHOOSE x \in period : TRUE IN
         IF systick_period_v <= n - lastT
         THEN [last_systick_trigger |-> n,
               pending |-> set_intr_pending(p, SYSTICK).pending,
               fatal |-> "none", fired |-> TRUE]
         ELSE [last_systick_trigger |-> lastT, pending |-> p,
               fatal |-> "none", fired |-> FALSE]

\* pub fn maybe_set_systick_intr_pending(&mut self), with n the value loaded
\* from NUM_INSTRUCTIONS.  `n - self.last_systick_trigger` is a u64
\* subtraction: when it underflows it panics with overflow checks, and
\* without them wraps to 2^64 + n - last, which is above every u32 period.
maybe_set_systick_intr_pending(period, lastT, p, n) ==
    IF period = {}
    THEN [last_systick_trigger |-> lastT, pending |-> p,
          fatal |-> "none", fired |-> FALSE]
    ELSE LET systick_period_v == CHOOSE x \in period : TRUE
             underflow == n < lastT
         IN
         IF underflow /\ overflow_checks
         THEN [last_systick_trigger |-> lastT, pending |-> p,
               fatal |-> "subtract overflow", fired |-> FALSE]
         ELSE IF underflow \/ systick_period_v < n - lastT
         THEN LET s == set_intr_pending(p, SYSTICK) IN
              [last_systick_trigger |-> n, pending |-> s.pending,
               fatal |-> s.fatal, fired |-> TRUE]
         ELSE [last_systick_trigger |-> lastT, pending |-> p,
               fatal |-> "none", fired |-> FALSE]

\* A variant that ignores PRIMASK.
are_interrupts_disabled_Never(r) == FALSE

\* fn are_interrupts_disabled(sys: &System) -> bool
are_interrupts_disabled(r) == r["PRIMASK"] # <<0, 0>>

----------------------------------------------------------------------------
(* Nvic: the exception frame *)

\* The loop of push_regs from CONTEXT_REGS[i] on: read the register,
\* sp -= 4, write its little-endian bytes at sp; a failed write panics.
RECURSIVE PushLoop(_, _, _, _)
PushLoop(i, r, sp, m) ==
    IF i > Len(CONTEXT_REGS) THEN [ok |-> TRUE, sp |-> sp, ram |-> m]
    ELSE LET v == r[CONTEXT_REGS[i]]
             sp2 == sp - 4
             w == mem_write(m, sp2, to_le_bytes(v))
             m2 == w.ram
         IN
         IF w.ok THEN PushLoop(i + 1, r, sp2, m2)
         ELSE [ok |-> FALSE, sp |-> sp2, ram |-> m]

\* fn push_regs(sys: &System): SP is written back after the last push.
push_regs(r, m) ==
    LET l == PushLoop(1, r, ToAddr(r["SP"]), m) IN
    IF l.ok
    THEN [ok |-> TRUE, regs |-> [r EXCEPT !["SP"] = ToWord(l.sp)], ram |-> l.ram]
    ELSE [ok |-> FALSE, regs |-> r, ram |-> l.ram]

\* The loop of pop_regs over CONTEXT_REGS reversed, from the i-th register
\* of the reversed array on: read 4 bytes at sp, sp += 4, write the register;
\* a failed read panics, the registers written so far stay written.
RECURSIVE PopLoop(_, _, _, _)
PopLoop(i, r, sp, m) ==
    IF i > Len(CONTEXT_REGS) THEN [ok |-> TRUE, sp |-> sp, regs |-> r]
    ELSE LET reg == CONTEXT_REGS[Len(CONTEXT_REGS) + 1 - i]
             v == mem_read(m, sp)
             sp2 == sp + 4
             r2 == [r EXCEPT ![reg] = from_le_bytes(v.bytes)]
         IN
         IF v.ok THEN PopLoop(i + 1, r2, sp2, m)
         ELSE [ok |-> FALSE, sp |-> sp, regs |-> r]

\* A variant that does not write SP back.
pop_regs_NoWriteBack(r, m) ==
    LET l == PopLoop(1, r, ToAddr(r["SP"]), m) IN
    [ok |-> l.ok, regs |-> l.regs]

\* fn pop_regs(sys: &System): SP is written back after the last pop.
pop_regs(r, m) ==
    LET l == PopLoop(1, r, ToAddr(r["SP"]), m) IN
    IF l.ok
    THEN [ok |-> TRUE, regs |-> [l.regs EXCEPT !["SP"] = ToWord(l.sp)]]
    ELSE [ok |-> FALSE, regs |-> l.regs]

----------------------------------------------------------------------------
(* Nvic: exception entry and exit *)

\* A variant that indexes the table by the interrupt number alone.
read_vector_addr_NoOffset(m, vector_table_addr, irq) ==
    LET v == mem_read(m, vector_table_addr + 4 * irq)
    IN [ok |-> v.ok, vector |-> from_le_bytes(v.bytes)]

\* fn read_vector_addr(sys, vector_table_addr: u32, irq: i32) -> u32
\* vaddr = vector_table_addr + 4 * ((IRQ_OFFSET + irq) as u32); the bit is
\* one that was pending, so 0..127.
read_vector_addr(m, vector_table_addr, irq) ==
    LET vaddr == vector_table_addr + 4 * (IRQ_OFFSET + irq)
        v == mem_read(m, vaddr)
    IN [ok |-> v.ok, vector |-> from_le_bytes(v.bytes)]

\* A variant that carries on after a failed vector read or stack write.
run_interrupt_IgnoresFault(r, m, vector_table_addr, irq) ==
    LET v == read_vector_addr(m, vector_table_addr, irq)
        p == push_regs(r, m)
    IN [regs |-> [p.regs EXCEPT !["IPSR"] = IrqAsWord(irq),
                                !["PC"] = v.vector,
                                !["LR"] = EXC_RETURN],
        ram |-> p.ram, entered |-> TRUE, fatal |-> "none"]

\* A variant that does not set in_interrupt.
run_interrupt_StaysIdle(r, m, vector_table_addr, irq) ==
    LET v == from_le_bytes(mem_read(m, vector_table_addr
                                       + 4 * (IRQ_OFFSET + irq)).bytes)
        p == push_regs(r, m)
    IN [regs |-> [p.regs EXCEPT !["IPSR"] = IrqAsWord(irq), !["PC"] = v,
                                !["LR"] = EXC_RETURN],
        ram |-> p.ram, entered |-> FALSE, fatal |-> "none"]

\* fn run_interrupt(&mut self, sys, vector_table_addr: u32, irq: i32)
run_interrupt(r, m, vector_table_addr, irq) ==
    LET v == read_vector_addr(m, vector_table_addr, irq) IN
    IF ~v.ok
    THEN [regs |-> r, ram |-> m, entered |-> FALSE,
          fatal |-> "vector read"]
    ELSE LET p == push_regs(r, m) IN
         IF ~p.ok
         THEN [regs |-> p.regs, ram |-> p.ram, entered |-> FALSE,
               fatal |-> "Invalid SP pointer during interrupt"]
         ELSE [regs |-> [p.regs EXCEPT !["IPSR"] = IrqAsWord(irq),
                                       !["PC"] = v.vector,
                                       !["LR"] = EXC_RETURN],
               ram |-> p.ram, entered |-> TRUE, fatal |-> "none"]

\* pub fn return_from_interrupt(&mut self, sys: &System)
return_from_interrupt(r, m, active) ==
    LET p == pop_regs(r, m) IN
    IF p.ok
    THEN [regs |-> p.regs, in_interrupt |-> FALSE, fatal |-> "none"]
    ELSE [regs |-> p.regs, in_interrupt |-> active,
          fatal |-> "Invalid SP pointer during interrupt return"]

\* A variant that updates SysTick only when an entry is possible.
run_pending_interrupts_SysTickLast(period, lastT, p, active, n, r, m, vector_table_addr) ==
    IF are_interrupts_disabled(r) \/ active
    THEN [last_systick_trigger |-> lastT, pending |-> p,
          in_interrupt |-> active, regs |-> r, ram |-> m, fatal |-> "none",
          fired |-> FALSE, irq |-> {}]
    ELSE LET t == maybe_set_systick_intr_pending(period, lastT, p, n)
             g == get_and_clear_next_intr_pending(t.pending)
         IN
         IF g.ret = {}
         THEN [last_systick_trigger |-> t.last_systick_trigger,
               pending |-> t.pending, in_interrupt |-> active,
               regs |-> r, ram |-> m, fatal |-> t.fatal,
               fired |-> t.fired, irq |-> {}]
         ELSE LET e == run_interrupt(r, m, vector_table_addr,
                                     CHOOSE x \in g.ret : TRUE)
              IN [last_systick_trigger |-> t.last_systick_trigger,
                  pending |-> g.pending, in_interrupt |-> e.entered,
                  regs |-> e.regs, ram |-> e.ram, fatal |-> e.fatal,
                  fired |-> t.fired, irq |-> g.ret]

\* A variant that does not test in_interrupt.
run_pending_interrupts_Nested(period, lastT, p, active, n, r, m, vector_table_addr) ==
    LET t == maybe_set_systick_intr_pending(period, lastT, p, n)
        g == get_and_clear_next_intr_pending(t.pending)
        idle == [last_systick_trigger |-> t.last_systick_trigger,
                 pending |-> t.pending, in_interrupt |-> active,
                 regs |-> r, ram |-> m, fatal |-> t.fatal,
                 fired |-> t.fired, irq |-> {}]
    IN
    IF are_interrupts_disabled(r) \/ g.ret = {} THEN idle
    ELSE LET e == run_interrupt(r, m, vector_table_addr,
                                CHOOSE x \in g.ret : TRUE)
         IN [last_systick_trigger |-> t.last_systick_trigger,
             pending |-> g.pending, in_interrupt |-> TRUE,
             regs |-> e.regs, ram |-> e.ram, fatal |-> e.fatal,
             fired |-> t.fired, irq |-> g.ret]

\* pub fn run_pending_interrupts(&mut self, sys, vector_table_addr: u32)
\* `irq` is the interrupt taken from the pending set, if any.
run_pending_interrupts(period, lastT, p, active, n, r, m, vector_table_addr) ==
    LET t == maybe_set_systick_intr_pending(period, lastT, p, n)
        idle == [last_systick_trigger |-> t.last_systick_trigger,
                 pending |-> t.pending, in_interrupt |-> active,
                 regs |-> r, ram |-> m, fatal |-> t.fatal,
                 fired |-> t.fired, irq |-> {}]
    IN
    IF t.fatal # "none" THEN idle
    ELSE IF are_interrupts_disabled(r) \/ active THEN idle
    ELSE LET g == get_and_clear_next_intr_pending(t.pending) IN
         IF g.ret = {} THEN idle
         ELSE LET irq == CHOOSE x \in g.ret : TRUE
                  e == run_interrupt(r, m, vector_table_addr, irq)
              IN [last_systick_trigger |-> t.last_systick_trigger,
                  pending |-> g.pending,
                  in_interrupt |-> (active \/ e.entered),
                  regs |-> e.regs, ram |-> e.ram, fatal |-> e.fatal,
                  fired |-> t.fired, irq |-> g.ret]

----------------------------------------------------------------------------
(* The controller's memory-mapped register bank *)

\* The controller's own fields, as `&mut self` of the Peripheral methods.
NvicState(period, lastT, p, active) ==
    [systick_period |-> period, last_systick_trigger |-> lastT,
     pending |-> p, in_interrupt |-> active]

\* impl Peripheral for Nvic: fn read(&mut self, _sys, _offset: u32) -> u32
read(self, offset) == [self |-> self, ret |-> <<0, 0>>]

\* A variant in which a write of bit 0 to offset 0x200 (the hardware's
\* set-pending register) asserts interrupt 0.
write_SetPending(self, offset, value) ==
    IF offset = 512 /\ value[2] % 2 = 1
    THEN [self EXCEPT !.pending = @ \cup {IRQ_OFFSET}]
    ELSE self

\* impl Peripheral for Nvic: fn write(&mut self, _sys, _offset: u32, _value: u32)
write(self, offset, value) == self

\* impl Peripheral for NvicWrapper: self.0.borrow_mut().read(sys, offset)
NvicWrapper_read(self, offset) == read(self, offset)

\* impl Peripheral for NvicWrapper: self.0.borrow_mut().write(sys, offset, value)
NvicWrapper_write(self, offset, value) == write(self, offset, value)

----------------------------------------------------------------------------
(* History *)

\* What `last` records of an operation: its name, the interrupt it was given
\* (set_intr_pending), returned (get_and_clear_next_intr_pending) or took
\* from the pending set (run_pending_interrupts), whether its SysTick update
\* fired, the pending set it started from, and, for an exception exit,
\* whether the stack pointer and the frame were as the entry left them.  A
\* scheduling check also records the vector table base it was given (base),
\* a register-bank read the value it returned (ret).
Did(op, irq, fired, pending0, intact) ==
    [op |-> op, irq |-> irq, fired |-> fired, pending0 |-> pending0,
     intact |-> intact, base |-> {}, ret |-> {}]

\* The firmware and the driver's configuration leave no history.
Quiet == Did("cpu", {}, FALSE, {}, FALSE)

FrameSize == 4 * Len(CONTEXT_REGS)

\* The controller's position: the statement it is at, and the locals of the
\* function it is in (the loop index, sp, irq, vector_table_addr, vector).
Pc(at, i, sp, irq, vector_table_addr, vector) ==
    [at |-> at, i |-> i, sp |-> sp, irq |-> irq,
     vector_table_addr |-> vector_table_addr, vector |-> vector]

\* Not inside an operation: the driver or the firmware runs.
Idle == Pc("idle", 0, 0, {}, 0, <<0, 0>>)

FrameIntact ==
    /\ snap # {}
    /\ LET s == CHOOSE x \in snap : TRUE IN
       /\ regs["SP"] = s.sp1
       /\ \A k \in 1 .. FrameSize :
              ram[ToAddr(s.sp1) - StackLow + k] =
              s.ram1[ToAddr(s.sp1) - StackLow + k]

----------------------------------------------------------------------------
(* The driver's calls into the controller *)

SetIntrPending(irq) ==
    /\ fatal = "none"
    /\ \E s \in {set_intr_pending(pending, irq)} :
       /\ pending' = s.pending
       /\ fatal' = s.fatal
    /\ last' = Did("set_intr_pending", {irq}, FALSE, pending, FALSE)
    /\ armed' = IF fatal' = "none" THEN armed \cup {irq} ELSE armed
    /\ UNCHANGED <<uc_borrow, pc>>
    /\ UNCHANGED <<systick_period, last_systick_trigger, in_interrupt,
                   NUM_INSTRUCTIONS, regs, ram, overflow_checks, snap, checks>>

GetAndClearNextIntrPending ==
    /\ fatal = "none"
    /\ \E g \in {get_and_clear_next_intr_pending(pending)} :
       /\ pending' = g.pending
       /\ last' = Did("get_and_clear_next_intr_pending", g.ret, FALSE,
                      pending, FALSE)
    /\ UNCHANGED <<uc_borrow, pc, armed>>
    /\ UNCHANGED <<systick_period, last_systick_trigger, in_interrupt,
                   NUM_INSTRUCTIONS, regs, ram, fatal, overflow_checks, snap, checks>>

RunPendingInterrupts(vector_table_addr) ==
    /\ fatal = "none"
    /\ \E c \in {run_pending_interrupts(systick_period, last_systick_trigger,
                    pending, in_interrupt, NUM_INSTRUCTIONS, regs, ram,
                    vector_table_addr)} :
       /\ last_systick_trigger' = c.last_systick_trigger
       /\ pending' = c.pending
       /\ in_interrupt' = c.in_interrupt
       /\ regs' = c.regs
       /\ ram' = c.ram
       /\ fatal' = c.fatal
       /\ last' = [Did("run_pending_interrupts", c.irq, c.fired, pending,
                       FALSE) EXCEPT !.base = {vector_table_addr}]
       /\ snap' = IF c.irq # {} /\ c.fatal = "none"
                  THEN {[regs0 |-> regs, sp1 |-> c.regs["SP"], ram1 |-> c.ram]}
                  ELSE snap
       /\ armed' = (armed \cup IF c.fired THEN {SYSTICK} ELSE {})
                          \ IF c.fatal = "none" THEN c.irq ELSE {}
    /\ UNCHANGED <<uc_borrow, pc>>
    /\ UNCHANGED <<systick_period, NUM_INSTRUCTIONS, overflow_checks>>

ReturnFromInterrupt ==
    /\ fatal = "none"
    /\ \E x \in {return_from_interrupt(regs, ram, in_interrupt)} :
       /\ regs' = x.regs
       /\ in_interrupt' = x.in_interrupt
       /\ fatal' = x.fatal
    /\ last' = Did("return_from_interrupt", {}, FALSE, pending, FrameIntact)
    /\ snap' = {}
    /\ UNCHANGED <<uc_borrow, pc, armed>>
    /\ UNCHANGED <<systick_period, last_systick_trigger, pending,
                   NUM_INSTRUCTIONS, ram, overflow_checks, checks>>

\* The firmware loads from the controller's register bank, through the
\* controller itself or through its wrapper.
PeripheralRead(via, offset) ==
    /\ fatal = "none"
    /\ \E x \in {IF via = "NvicWrapper"
                  THEN NvicWrapper_read(NvicState(systick_period,
                           last_systick_trigger, pending, in_interrupt), offset)
                  ELSE read(NvicState(systick_period, last_systick_trigger,
                           pending, in_interrupt), offset)} :
          /\ systick_period' = x.self.systick_period
          /\ last_systick_trigger' = x.self.last_systick_trigger
          /\ pending' = x.self.pending
          /\ in_interrupt' = x.self.in_interrupt
          /\ last' = [Did("read", {}, FALSE, pending, FALSE)
                         EXCEPT !.ret = {x.ret}]
    /\ UNCHANGED <<uc_borrow, pc, armed>>
    /\ UNCHANGED <<NUM_INSTRUCTIONS, regs, ram, fatal, overflow_checks,
                   snap, checks>>

\* The firmware stores to the controller's register bank.
PeripheralWrite(via, offset, value) ==
    /\ fatal = "none"
    /\ \E x \in {IF via = "NvicWrapper"
                  THEN NvicWrapper_write(NvicState(systick_period,
                           last_systick_trigger, pending, in_interrupt),
                           offset, value)
                  ELSE write(NvicState(systick_period, last_systick_trigger,
                           pending, in_interrupt), offset, value)} :
          /\ systick_period' = x.systick_period
          /\ last_systick_trigger' = x.last_systick_trigger
          /\ pending' = x.pending
          /\ in_interrupt' = x.in_interrupt
    /\ last' = Did("write", {}, FALSE, pending, FALSE)
    /\ UNCHANGED <<uc_borrow, pc, armed>>
    /\ UNCHANGED <<NUM_INSTRUCTIONS, regs, ram, fatal, overflow_checks,
                   snap, checks>>

\* The driver's boot sequence writes `pub systick_period`.
SetSystickPeriod(period) ==
    /\ fatal = "none"
    /\ systick_period # period
    /\ systick_period' = period
    /\ last' = Quiet
    /\ UNCHANGED <<uc_borrow, pc, armed>>
    /\ UNCHANGED <<last_systick_trigger, pending, in_interrupt,
                   NUM_INSTRUCTIONS, regs, ram, fatal, overflow_checks, snap, checks>>

----------------------------------------------------------------------------
(* The emulated CPU running the firmware *)

\* One more instruction executed.
Tick ==
    /\ fatal = "none"
    /\ NUM_INSTRUCTIONS < MaxInstr
    /\ NUM_INSTRUCTIONS' = NUM_INSTRUCTIONS + 1
    /\ last' = Quiet
    /\ UNCHANGED <<uc_borrow, pc, armed>>
    /\ UNCHANGED <<systick_period, last_systick_trigger, pending,
                   in_interrupt, regs, ram, fatal, overflow_checks, snap, checks>>

\* A basic block of k instructions executed between two scheduling checks.
RunBlock(k) ==
    /\ fatal = "none"
    /\ NUM_INSTRUCTIONS + k <= MaxBlockInstr
    /\ NUM_INSTRUCTIONS' = NUM_INSTRUCTIONS + k
    /\ last' = Quiet
    /\ UNCHANGED <<uc_borrow, pc, armed>>
    /\ UNCHANGED <<systick_period, last_systick_trigger, pending,
                   in_interrupt, regs, ram, fatal, overflow_checks, snap, checks>>

\* cpsid i / cpsie i
SetPrimask(v) ==
    /\ fatal = "none"
    /\ regs["PRIMASK"] # <<0, v>>
    /\ regs' = [regs EXCEPT !["PRIMASK"] = <<0, v>>]
    /\ last' = Quiet
    /\ UNCHANGED <<uc_borrow, pc, armed>>
    /\ UNCHANGED <<systick_period, last_systick_trigger, pending,
                   in_interrupt, NUM_INSTRUCTIONS, ram, fatal,
                   overflow_checks, snap, checks>>

\* The firmware computes: the saved registers take new contents.
CpuWriteRegs(p) ==
    /\ fatal = "none"
    /\ regs' = [r \in RegNames |->
                  IF r \in {"SP", "IPSR", "PRIMASK"} THEN regs[r]
                  ELSE PatternWord(p, IndexOf(r))]
    /\ regs' # regs
    /\ last' = Quiet
    /\ UNCHANGED <<uc_borrow, pc, armed>>
    /\ UNCHANGED <<systick_period, last_systick_trigger, pending,
                   in_interrupt, NUM_INSTRUCTIONS, ram, fatal,
                   overflow_checks, snap, checks>>

\* The firmware moves the stack pointer.
CpuSetSP(sp) ==
    /\ fatal = "none"
    /\ regs["SP"] # ToWord(sp)
    /\ regs' = [regs EXCEPT !["SP"] = ToWord(sp)]
    /\ last' = Quiet
    /\ UNCHANGED <<uc_borrow, pc, armed>>
    /\ UNCHANGED <<systick_period, last_systick_trigger, pending,
                   in_interrupt, NUM_INSTRUCTIONS, ram, fatal,
                   overflow_checks, snap, checks>>

\* A handler stores a word at an offset from the stack pointer (a new stacked
\* PC at offset 24 of the frame).
CpuStoreWord(off, p) ==
    /\ fatal = "none"
    /\ in_interrupt
    /\ \E w \in {mem_write(ram, ToAddr(regs["SP"]) + off,
                            to_le_bytes(PatternWord(p, 1)))} :
          /\ w.ok
          /\ ram' = w.ram
          /\ ram' # ram
    /\ last' = Quiet
    /\ UNCHANGED <<uc_borrow, pc, armed>>
    /\ UNCHANGED <<systick_period, last_systick_trigger, pending,
                   in_interrupt, NUM_INSTRUCTIONS, regs, fatal,
                   overflow_checks, snap, checks>>

----------------------------------------------------------------------------
(* The controller's operations statement by statement, with the borrows of *)
(* sys.uc (Rc<RefCell<Unicorn>>) that each statement takes and drops.  A   *)
(* guard bound by `let` lives to the end of its function; a temporary      *)
(* guard is dropped at the end of its statement; a panic unwinds and drops *)
(* the guards.                                                             *)

\* RefCell::borrow_mut: a panic unless the cell is not borrowed.
borrow_mut(b) ==
    IF b = "free" THEN [ok |-> TRUE, borrow |-> "mut"]
    ELSE [ok |-> FALSE, borrow |-> b]

\* RefCell::borrow: a panic if the cell is mutably borrowed.  The guard is a
\* temporary of the statement that takes it.
borrow(b) == [ok |-> b # "mut", borrow |-> b]

StepFrame == UNCHANGED <<systick_period, NUM_INSTRUCTIONS, overflow_checks,
                         last, snap, checks, armed>>

\* run_pending_interrupts up to the call of run_interrupt: the SysTick
\* update, the PRIMASK read under a temporary borrow, the in_interrupt test,
\* get_and_clear_next_intr_pending.
StepRunPendingInterrupts(vector_table_addr) ==
    /\ fatal = "none"
    /\ pc = Idle
    /\ \E t \in {maybe_set_systick_intr_pending(systick_period,
                    last_systick_trigger, pending, NUM_INSTRUCTIONS)} :
       /\ last_systick_trigger' = t.last_systick_trigger
       /\ IF t.fatal # "none"
          THEN /\ fatal' = t.fatal
               /\ pending' = t.pending
               /\ pc' = pc
          ELSE IF ~borrow(uc_borrow).ok
          THEN /\ fatal' = "already mutably borrowed"
               /\ pending' = t.pending
               /\ pc' = pc
          ELSE IF are_interrupts_disabled(regs) \/ in_interrupt
          THEN /\ fatal' = fatal
               /\ pending' = t.pending
               /\ pc' = Idle
          ELSE \E g \in {get_and_clear_next_intr_pending(t.pending)} :
               /\ fatal' = fatal
               /\ pending' = g.pending
               /\ pc' = IF g.ret = {} THEN Idle
                        ELSE Pc("read_vector_addr", 0, 0, g.ret,
                                vector_table_addr, <<0, 0>>)
    /\ UNCHANGED <<in_interrupt, regs, ram, uc_borrow>>
    /\ StepFrame

\* run_interrupt: let vector = Self::read_vector_addr(..), the memory read
\* under a temporary borrow.
StepReadVectorAddr ==
    /\ fatal = "none"
    /\ pc.at = "read_vector_addr"
    /\ \E v \in {read_vector_addr(ram, pc.vector_table_addr,
                                  CHOOSE x \in pc.irq : TRUE)} :
       IF ~borrow(uc_borrow).ok
       THEN fatal' = "already mutably borrowed" /\ pc' = pc
       ELSE IF ~v.ok
       THEN fatal' = "vector read" /\ pc' = pc
       ELSE /\ fatal' = fatal
            /\ pc' = [pc EXCEPT !.at = "push_regs", !.vector = v.vector]
    /\ UNCHANGED <<last_systick_trigger, pending, in_interrupt, regs, ram,
                   uc_borrow>>
    /\ StepFrame

\* push_regs: let mut uc = sys.uc.borrow_mut(); let mut sp = reg_read(SP)
StepPushBorrow ==
    /\ fatal = "none"
    /\ pc.at = "push_regs"
    /\ \E g \in {borrow_mut(uc_borrow)} :
       /\ uc_borrow' = g.borrow
       /\ IF g.ok
          THEN /\ fatal' = fatal
               /\ pc' = [pc EXCEPT !.at = "push_loop", !.i = 1,
                                   !.sp = ToAddr(regs["SP"])]
          ELSE fatal' = "already borrowed" /\ pc' = pc
    /\ UNCHANGED <<last_systick_trigger, pending, in_interrupt, regs, ram>>
    /\ StepFrame

\* A variant in which each write takes and drops its own borrow.
StepPush_BorrowPerWrite ==
    /\ fatal = "none"
    /\ pc.at = "push_loop"
    /\ pc.i <= Len(CONTEXT_REGS)
    /\ \E w \in {mem_write(ram, pc.sp - 4,
                           to_le_bytes(regs[CONTEXT_REGS[pc.i]]))} :
       /\ ram' = w.ram
       /\ uc_borrow' = "free"
       /\ IF w.ok
          THEN /\ fatal' = fatal
               /\ pc' = [pc EXCEPT !.i = pc.i + 1, !.sp = pc.sp - 4]
          ELSE /\ fatal' = "Invalid SP pointer during interrupt"
               /\ pc' = pc
    /\ UNCHANGED <<last_systick_trigger, pending, in_interrupt, regs>>
    /\ StepFrame

\* push_regs: one iteration of the loop; the guard stays alive, and the
\* unwinding of a failed write drops it.
StepPush ==
    /\ fatal = "none"
    /\ pc.at = "push_loop"
    /\ pc.i <= Len(CONTEXT_REGS)
    /\ \E w \in {mem_write(ram, pc.sp - 4,
                           to_le_bytes(regs[CONTEXT_REGS[pc.i]]))} :
       /\ ram' = w.ram
       /\ IF w.ok
          THEN /\ fatal' = fatal
               /\ uc_borrow' = uc_borrow
               /\ pc' = [pc EXCEPT !.i = pc.i + 1, !.sp = pc.sp - 4]
          ELSE /\ fatal' = "Invalid SP pointer during interrupt"
               /\ uc_borrow' = "free"
               /\ pc' = pc
    /\ UNCHANGED <<last_systick_trigger, pending, in_interrupt, regs>>
    /\ StepFrame

\* push_regs: uc.reg_write(SP, sp), and the guard dropped at the end of the
\* function.
StepPushWriteBack ==
    /\ fatal = "none"
    /\ pc.at = "push_loop"
    /\ pc.i > Len(CONTEXT_REGS)
    /\ regs' = [regs EXCEPT !["SP"] = ToWord(pc.sp)]
    /\ uc_borrow' = "free"
    /\ pc' = [pc EXCEPT !.at = "run_interrupt"]
    /\ UNCHANGED <<last_systick_trigger, pending, in_interrupt, ram, fatal>>
    /\ StepFrame

\* run_interrupt: let mut uc = sys.uc.borrow_mut()
StepEntryBorrow ==
    /\ fatal = "none"
    /\ pc.at = "run_interrupt"
    /\ \E g \in {borrow_mut(uc_borrow)} :
       /\ uc_borrow' = g.borrow
       /\ IF g.ok
          THEN fatal' = fatal /\ pc' = [pc EXCEPT !.at = "reg_write"]
          ELSE fatal' = "already borrowed" /\ pc' = pc
    /\ UNCHANGED <<last_systick_trigger, pending, in_interrupt, regs, ram>>
    /\ StepFrame

\* run_interrupt: the writes of IPSR, PC and LR, self.in_interrupt = true,
\* and the guard dropped at the end of the function.
StepEntryRegs ==
    /\ fatal = "none"
    /\ pc.at = "reg_write"
    /\ regs' = [regs EXCEPT
                   !["IPSR"] = IrqAsWord(CHOOSE x \in pc.irq : TRUE),
                   !["PC"] = pc.vector,
                   !["LR"] = EXC_RETURN]
    /\ in_interrupt' = TRUE
    /\ uc_borrow' = "free"
    /\ pc' = Idle
    /\ UNCHANGED <<last_systick_trigger, pending, ram, fatal>>
    /\ StepFrame

\* return_from_interrupt, entered by the driver: the call of pop_regs.
StepReturnFromInterrupt ==
    /\ fatal = "none"
    /\ pc = Idle
    /\ pc' = [pc EXCEPT !.at = "pop_regs"]
    /\ UNCHANGED <<last_systick_trigger, pending, in_interrupt, regs, ram,
                   fatal, uc_borrow>>
    /\ StepFrame

\* pop_regs: let mut uc = sys.uc.borrow_mut(); let mut sp = reg_read(SP)
StepPopBorrow ==
    /\ fatal = "none"
    /\ pc.at = "pop_regs"
    /\ \E g \in {borrow_mut(uc_borrow)} :
       /\ uc_borrow' = g.borrow
       /\ IF g.ok
          THEN /\ fatal' = fatal
               /\ pc' = [pc EXCEPT !.at = "pop_loop", !.i = 1,
                                   !.sp = ToAddr(regs["SP"])]
          ELSE fatal' = "already borrowed" /\ pc' = pc
    /\ UNCHANGED <<last_systick_trigger, pending, in_interrupt, regs, ram>>
    /\ StepFrame

\* pop_regs: one iteration of the loop over CONTEXT_REGS reversed.
StepPop ==
    /\ fatal = "none"
    /\ pc.at = "pop_loop"
    /\ pc.i <= Len(CONTEXT_REGS)
    /\ \E v \in {mem_read(ram, pc.sp)} :
       IF v.ok
       THEN /\ regs' = [regs EXCEPT
                           ![CONTEXT_REGS[Len(CONTEXT_REGS) + 1 - pc.i]] =
                               from_le_bytes(v.bytes)]
            /\ fatal' = fatal
            /\ uc_borrow' = uc_borrow
            /\ pc' = [pc EXCEPT !.i = pc.i + 1, !.sp = pc.sp + 4]
       ELSE /\ regs' = regs
            /\ fatal' = "Invalid SP pointer during interrupt return"
            /\ uc_borrow' = "free"
            /\ pc' = pc
    /\ UNCHANGED <<last_systick_trigger, pending, in_interrupt, ram>>
    /\ StepFrame

\* pop_regs: uc.reg_write(SP, sp), the guard dropped at the end of the
\* function; then return_from_interrupt: self.in_interrupt = false.
StepPopWriteBack ==
    /\ fatal = "none"
    /\ pc.at = "pop_loop"
    /\ pc.i > Len(CONTEXT_REGS)
    /\ regs' = [regs EXCEPT !["SP"] = ToWord(pc.sp)]
    /\ uc_borrow' = "free"
    /\ in_interrupt' = FALSE
    /\ pc' = Idle
    /\ UNCHANGED <<last_systick_trigger, pending, ram, fatal>>
    /\ StepFrame

----------------------------------------------------------------------------
(* Specifications *)

Periods == { {} } \cup { {p} : p \in 1 .. MaxPeriod }

\* Nvic::default(), an emulator that has executed nothing, the firmware's
\* registers at their first contents.
Init ==
    /\ systick_period = {}
    /\ last_systick_trigger = 0
    /\ pending = {}
    /\ in_interrupt = FALSE
    /\ NUM_INSTRUCTIONS = 0
    /\ regs = PatternRegs(1, StackTop, 0)
    /\ ram = [i \in 1 .. RamSize |-> 0]
    /\ fatal = "none"
    /\ overflow_checks \in BOOLEAN
    /\ last = Did("new", {}, FALSE, {}, FALSE)
    /\ snap = {}
    /\ checks = 0
    /\ uc_borrow = "free"
    /\ pc = Idle
    /\ armed = {}

\* The scheduling of interrupts: PendSV and a device interrupt asserted by
\* the driver, SysTick by the timer, the firmware masking and unmasking.
SchedIrqs == { PENDSV, 2 }

Next ==
    \/ \E irq \in SchedIrqs : SetIntrPending(irq)
    \/ RunPendingInterrupts(FlashBase) /\ UNCHANGED checks
    \/ ReturnFromInterrupt
    \/ \E period \in Periods : SetSystickPeriod(period)
    \/ Tick
    \/ \E v \in {0, 1} : SetPrimask(v)

Spec == Init /\ [][Next]_vars

\* The pending set under the driver's calls alone.  Interrupt numbers below
\* the range (-17), at the lowest bit (-16), SysTick, device interrupts, the
\* highest bit (111) and above the range (112).
IrqInputs == { -17, -16, SYSTICK, 2, 5, 9, 111, 112 }

NextPending ==
    \/ \E irq \in IrqInputs : SetIntrPending(irq)
    \/ GetAndClearNextIntrPending

SpecPending == Init /\ [][NextPending]_vars

\* The exception frame: every register pattern and stack pointer, a firmware
\* that changes registers, stack pointer and stack between entry and exit, a
\* driver that signals the exit of a handler.
InitFrame ==
    /\ systick_period = {}
    /\ last_systick_trigger = 0
    /\ pending = {}
    /\ in_interrupt = FALSE
    /\ NUM_INSTRUCTIONS = 0
    /\ \E p \in 1 .. NumPatterns, sp \in StackPointers :
           regs = PatternRegs(p, sp, 0)
    /\ ram = [i \in 1 .. RamSize |-> 0]
    /\ fatal = "none"
    /\ overflow_checks = FALSE
    /\ last = Did("new", {}, FALSE, {}, FALSE)
    /\ snap = {}
    /\ checks = 0
    /\ uc_borrow = "free"
    /\ pc = Idle
    /\ armed = {}

NextFrame ==
    \/ SetIntrPending(2)
    \/ /\ checks < MaxChecks
       /\ checks' = checks + 1
       /\ \E vta \in VectorBases : RunPendingInterrupts(vta)
    \/ in_interrupt /\ ReturnFromInterrupt
    \/ \E p \in 1 .. NumPatterns : CpuWriteRegs(p)
    \/ \E sp \in StackPointers \cup { ToAddr(s.sp1) : s \in snap } : CpuSetSP(sp)
    \/ CpuStoreWord(24, 1)

SpecFrame == InitFrame /\ [][NextFrame]_vars

\* The scheduling of interrupts with a firmware that also reads and writes
\* the controller's register bank: the hardware's ISPR0 (0x200) and ICPR0
\* (0x280).
BankOffsets == { 512, 640 }
BankValues == { <<0, 1>>, <<65535, 65535>> }
BankPaths == { "Nvic", "NvicWrapper" }

NextBank ==
    \/ Next
    \/ \E via \in BankPaths, offset \in BankOffsets :
           PeripheralRead(via, offset)
    \/ \E via \in BankPaths, offset \in BankOffsets, value \in BankValues :
           PeripheralWrite(via, offset, value)

SpecBank == Init /\ [][NextBank]_vars

\* The controller statement by statement: the driver asserts an interrupt,
\* makes a scheduling check or signals an exception exit only between the
\* controller's operations, the firmware changes registers only then.
NextSteps ==
    \/ pc = Idle /\ SetIntrPending(2)
    \/ pc = Idle /\ \E p \in 1 .. NumPatterns : CpuWriteRegs(p)
    \/ \E vta \in VectorBases : StepRunPendingInterrupts(vta)
    \/ StepReadVectorAddr
    \/ StepPushBorrow
    \/ StepPush
    \/ StepPushWriteBack
    \/ StepEntryBorrow
    \/ StepEntryRegs
    \/ in_interrupt /\ StepReturnFromInterrupt
    \/ StepPopBorrow
    \/ StepPop
    \/ StepPopWriteBack

SpecSteps == InitFrame /\ [][NextSteps]_vars

\* No SysTick period or one of 1000 instructions, the firmware running in
\* basic blocks of 500, 1000 and 1500 instructions between the scheduling
\* checks, SysTick asserted by the timer and by the driver.
NextBlocks ==
    \/ \E period \in { {}, {1000} } : SetSystickPeriod(period)
    \/ \E k \in {500, 1000, 1500} : RunBlock(k)
    \/ \E irq \in {SYSTICK, 2} : SetIntrPending(irq)
    \/ RunPendingInterrupts(FlashBase) /\ UNCHANGED checks
    \/ in_interrupt /\ ReturnFromInterrupt
    \/ \E v \in {0, 1} : SetPrimask(v)

SpecBlocks == Init /\ [][NextBlocks]_vars

\* Exception entry for architectural exceptions and device interrupts, from
\* the lowest accepted number (-15) to the highest (111), with the vector
\* table at its usual base, 16 slots higher (where the slots of the highest
\* interrupts are unmapped), and in unmapped memory.
EntryIrqs == { -15, SYSTICK, 2, 111 }
EntryBases == { FlashBase, FlashBase + 64, BadVectorBase }

NextEntry ==
    \/ \E irq \in EntryIrqs : SetIntrPending(irq)
    \/ /\ checks < MaxChecks
       /\ checks' = checks + 1
       /\ \E vta \in EntryBases : RunPendingInterrupts(vta)
    \/ in_interrupt /\ ReturnFromInterrupt

InitEntry ==
    /\ InitFrame
    /\ regs = PatternRegs(1, ToAddr(regs["SP"]), 0)

SpecEntry == InitEntry /\ [][NextEntry]_vars

\* The delivery of interrupts that are never masked: SysTick asserted by the
\* timer, a device interrupt and an interrupt number above the controller's
\* 128 bits asserted by the driver.
DeliveryIrqs == { 2, PENDING_BITS - IRQ_OFFSET }

NextDelivery ==
    \/ \E irq \in DeliveryIrqs : SetIntrPending(irq)
    \/ RunPendingInterrupts(FlashBase) /\ UNCHANGED checks
    \/ in_interrupt /\ ReturnFromInterrupt
    \/ \E period \in Periods : SetSystickPeriod(period)
    \/ Tick

SpecDelivery == Init /\ [][NextDelivery]_vars

\* The scheduling of interrupts by a driver and a firmware that keep going:
\* a handler that runs triggers its exception exit, a firmware that has set
\* PRIMASK clears it again, and the driver's scheduling checks keep occurring,
\* again and again at a moment where PRIMASK is clear.  Every operation
\* records itself in `last`, which is how a step is recognised.
ExitStep == last'.op = "return_from_interrupt"

CheckUnmasked ==
    /\ last'.op = "run_pending_interrupts"
    /\ ~are_interrupts_disabled(regs)

\* A scheduling check made now performs an exception entry.
EntryReady ==
    /\ fatal = "none"
    /\ ~are_interrupts_disabled(regs)
    /\ ~in_interrupt
    /\ pending # {}

NextLive ==
    \/ \E irq \in SchedIrqs : SetIntrPending(irq)
    \/ RunPendingInterrupts(FlashBase) /\ UNCHANGED checks
    \/ in_interrupt /\ ReturnFromInterrupt
    \/ \E v \in {0, 1} : SetPrimask(v)

SpecLive ==
    /\ Init
    /\ [][NextLive]_vars
    \* weak fairness of the exception exit, enabled while a handler runs
    /\ []<>(~in_interrupt \/ fatal # "none") \/ []<><<ExitStep>>_vars
    /\ WF_vars(SetPrimask(0))
    \* strong fairness of the scheduling check with PRIMASK clear, over the
    \* states where it performs an entry
    /\ <>[](~EntryReady) \/ []<><<CheckUnmasked>>_vars

----------------------------------------------------------------------------
(* Properties *)

Masked == regs["PRIMASK"] # <<0, 0>>

SysTickBit == IRQ_OFFSET + SYSTICK

\* The SysTick update of a scheduling check made now would fire.
SysTickDue ==
    \E P \in systick_period : NUM_INSTRUCTIONS - last_systick_trigger > P

\* The pending set after the SysTick update of a scheduling check made now.
PendingAfterSysTick == pending \cup (IF SysTickDue THEN {SysTickBit} ELSE {})

\* A step that performs no exception entry: no register, no memory and not
\* the activity flag changes.
NoEntry ==
    /\ regs' = regs
    /\ ram' = ram
    /\ in_interrupt' = in_interrupt
    /\ last'.irq = {}

\* The step enters the exception of the interrupt at bit b: the frame is
\* pushed, the handler of b's vector slot runs, the controller is active.
EntryFor(b) ==
    /\ last'.irq = {b - IRQ_OFFSET}
    /\ in_interrupt'
    /\ ToAddr(regs'["SP"]) = ToAddr(regs["SP"]) - 100
    /\ regs'["PC"] = HandlerAddr(b)

IsLowest(b, p) == b \in p /\ \A c \in p : b - IRQ_OFFSET <= c - IRQ_OFFSET

C2_MaskedCheckLeavesPending ==
    [][ (last'.op = "run_pending_interrupts" /\ Masked /\ pending # {}) =>
            (NoEntry /\ pending' = pending)
      ]_vars

\* C2, amended: with PRIMASK non-zero and a non-empty pending set, a
\* scheduling check performs no exception entry and removes nothing from the
\* pending set; the pending set is exactly as before unless the SysTick update
\* of the check fires, and then SysTick, and nothing else, is added to it.
C2_MaskedCheckAddsOnlySysTick ==
    [][ (last'.op = "run_pending_interrupts" /\ Masked /\ pending # {}) =>
            /\ NoEntry
            /\ pending' = PendingAfterSysTick
            /\ (~SysTickDue => pending' = pending)
      ]_vars

\* A masked scheduling check started with an interrupt pending and added
\* SysTick to the pending set.
C2_Witness ==
    /\ last.op = "run_pending_interrupts"
    /\ Masked
    /\ last.pending0 # {}
    /\ last.fired
    /\ pending = last.pending0 \cup {SysTickBit}
    /\ pending # last.pending0
    /\ last.irq = {}

\* C3: lowest-number selection.  get_and_clear_next_intr_pending returns the
\* numerically smallest pending interrupt number, removes exactly that one and
\* leaves the others pending; on an empty set it returns None and changes
\* nothing; two calls in a row return strictly increasing numbers.
C3_LowestFirst ==
    [][ (last'.op = "get_and_clear_next_intr_pending") =>
          /\ (pending = {}) => (last'.irq = {} /\ pending' = {})
          /\ (pending # {}) =>
                \E b \in pending :
                    /\ IsLowest(b, pending)
                    /\ last'.irq = {b - IRQ_OFFSET}
                    /\ pending' = pending \ {b}
          /\ (last.op = "get_and_clear_next_intr_pending" /\ last'.irq # {}) =>
                \A x \in last.irq, y \in last'.irq : x < y
      ]_vars

\* With 2, 5 and 9 pending, a call has returned 2 and left 5 and 9.
C3_Witness ==
    /\ last.op = "get_and_clear_next_intr_pending"
    /\ last.pending0 = {IRQ_OFFSET + 2, IRQ_OFFSET + 5, IRQ_OFFSET + 9}
    /\ last.irq = {2}
    /\ pending = {IRQ_OFFSET + 5, IRQ_OFFSET + 9}

\* C4: coalescing.  set_intr_pending of an interrupt of the supported range
\* (bit 0..127) that is already pending leaves the pending set as it was, and
\* the call returns for every interrupt the controller accepts (bit 1..127);
\* when it is the only pending interrupt, the next
\* get_and_clear_next_intr_pending returns it and leaves nothing pending, and
\* a call on the empty set returns None.
C4_Coalescing ==
    [][ /\ ( /\ last'.op = "set_intr_pending"
             /\ \E irq \in last'.irq :
                   /\ IRQ_OFFSET + irq \in 0 .. (PENDING_BITS - 1)
                   /\ IRQ_OFFSET + irq \in pending ) =>
               /\ pending' = pending
               /\ (\E irq \in last'.irq : IRQ_OFFSET + irq > 0) =>
                      fatal' = "none"
        /\ ( /\ last.op = "set_intr_pending"
             /\ last'.op = "get_and_clear_next_intr_pending"
             /\ \E irq \in last.irq : pending = {IRQ_OFFSET + irq} ) =>
               (last'.irq = last.irq /\ pending' = {})
        /\ ( /\ last'.op = "get_and_clear_next_intr_pending"
             /\ pending = {} ) =>
               (last'.irq = {} /\ pending' = {})
      ]_vars

\* Interrupt 5 was asserted while it was already pending.
C4_Witness ==
    /\ last.op = "set_intr_pending"
    /\ last.irq = {5}
    /\ IRQ_OFFSET + 5 \in last.pending0
    /\ pending = last.pending0
    /\ fatal = "none"

\* C5: frame round trip.  An exception exit made while the stack pointer and
\* the 100 bytes of the frame are as the exception entry left them returns,
\* restores every register of CONTEXT_REGS to its value before the entry,
\* returns SP to its value before the entry and ends the handler, whatever the
\* firmware did to the registers in between.
C5_FrameRoundTrip ==
    [][ (last'.op = "return_from_interrupt" /\ FrameIntact) =>
            \A s \in snap :
                /\ fatal' = "none"
                /\ \A i \in 1 .. Len(CONTEXT_REGS) :
                       regs'[CONTEXT_REGS[i]] = s.regs0[CONTEXT_REGS[i]]
                /\ regs'["SP"] = s.regs0["SP"]
                /\ ~in_interrupt'
      ]_vars

\* An exit on the intact frame of an entry made from a stack pointer with
\* exactly 100 mapped bytes below it has returned.
C5_Witness ==
    /\ last.op = "return_from_interrupt"
    /\ last.intact
    /\ fatal = "none"
    /\ ~in_interrupt
    /\ regs["SP"] = ToWord(StackLow + 100)

\* C6: SysTick periodicity.  With a period P configured and
\* last_systick_trigger = T, a scheduling check made at instruction count n
\* asserts SysTick exactly when n - T > P; when it does, last_systick_trigger
\* becomes n and SysTick is pending or delivered after the check; when it
\* does not, last_systick_trigger stays T and SysTick is not newly pending.
C6_SysTickPeriodicity ==
    [][ (last'.op = "run_pending_interrupts" /\ systick_period # {}) =>
            \A P \in systick_period :
                LET due == NUM_INSTRUCTIONS - last_systick_trigger > P
                    asserted == \/ SysTickBit \in pending'
                                \/ last'.irq = {SYSTICK}
                IN
                /\ last'.fired <=> due
                /\ due => /\ last_systick_trigger' = NUM_INSTRUCTIONS
                          /\ asserted
                /\ ~due => /\ last_systick_trigger' = last_systick_trigger
                           /\ asserted => SysTickBit \in pending
      ]_vars

\* After an earlier firing moved the trigger point, a check made exactly one
\* period later has not fired.
C6_Witness ==
    /\ last.op = "run_pending_interrupts"
    /\ ~last.fired
    /\ last_systick_trigger > 0
    /\ \E P \in systick_period : NUM_INSTRUCTIONS - last_systick_trigger = P
    /\ SysTickBit \notin pending

\* C7 as stated: set_intr_pending of an interrupt number whose bit position is
\* negative or at least 128 aborts and sets no bit of the pending set.
C7_OutOfRangeAborts ==
    (/\ last.op = "set_intr_pending"
     /\ \E irq \in last.irq :
            IRQ_OFFSET + irq < 0 \/ IRQ_OFFSET + irq >= PENDING_BITS) =>
        (fatal # "none" /\ pending = last.pending0)

C9_IdleToServicing ==
    [][ ( /\ last'.op = "run_pending_interrupts"
          /\ ~Masked
          /\ ~in_interrupt
          /\ PendingAfterSysTick # {} ) =>
            \E b \in PendingAfterSysTick :
                /\ IsLowest(b, PendingAfterSysTick)
                /\ EntryFor(b)
                /\ regs'["IPSR"] = IrqAsWord(b - IRQ_OFFSET)
                /\ pending' = PendingAfterSysTick \ {b}
                /\ fatal' = "none"
      ]_vars

\* PendSV was delivered while SysTick and interrupt 2 stay pending.
C9_Witness ==
    /\ last.op = "run_pending_interrupts"
    /\ last.irq = {PENDSV}
    /\ in_interrupt
    /\ pending = {SysTickBit, IRQ_OFFSET + 2}
    /\ fatal = "none"

\* The hardware's exception frame, from the lowest address up.
FrameOrder ==
    << "R0", "R1", "R2", "R3", "R12", "LR", "PC", "XPSR",
       "S0", "S1", "S2", "S3", "S4", "S5", "S6", "S7",
       "S8", "S9", "S10", "S11", "S12", "S13", "S14", "S15",
       "FPSCR" >>

\* The 32-bit word whose least significant byte is at address a of memory m.
LittleEndianAt(m, a) ==
    LET k == a - StackLow IN
    << m[k + 3] + 256 * m[k + 4], m[k + 1] + 256 * m[k + 2] >>

\* The number of whole words mapped from address a up, at most a frame.
MappedWords(a) ==
    IF a < StackLow \/ a >= StackTop THEN 0
    ELSE IF (StackTop - a) \div 4 > Len(FrameOrder) THEN Len(FrameOrder)
    ELSE (StackTop - a) \div 4

\* C10: exception frame layout.  An exception entry from stack pointer SP0
\* leaves the stack pointer at SP0 - 100 and, at SP0 - 100 + 4 * (i - 1), the
\* little-endian word of the pre-entry value of the i-th register of R0, R1,
\* R2, R3, R12, LR, PC, XPSR, S0 .. S15, FPSCR.  An exception exit loads the
\* registers from those addresses in that order: all 25 and SP + 100 when it
\* returns, and the registers before the first unmapped word, and no other,
\* when it fails.
C10_FrameLayout ==
    [][ /\ ( /\ last'.op = "run_pending_interrupts"
             /\ last'.irq # {}
             /\ fatal' = "none" ) =>
               /\ ToAddr(regs'["SP"]) = ToAddr(regs["SP"]) - 100
               /\ \A i \in 1 .. Len(FrameOrder) :
                      LittleEndianAt(ram', ToAddr(regs["SP"]) - 100 + 4 * (i - 1))
                          = regs[FrameOrder[i]]
        /\ (last'.op = "return_from_interrupt") =>
               LET k == MappedWords(ToAddr(regs["SP"])) IN
               /\ fatal' = "none" <=> k = Len(FrameOrder)
               /\ \A i \in 1 .. Len(FrameOrder) :
                      regs'[FrameOrder[i]] =
                          IF i <= k
                          THEN LittleEndianAt(ram, ToAddr(regs["SP"]) + 4 * (i - 1))
                          ELSE regs[FrameOrder[i]]
               /\ ToAddr(regs'["SP"]) =
                      IF k = Len(FrameOrder) THEN ToAddr(regs["SP"]) + 100
                      ELSE ToAddr(regs["SP"])
      ]_vars

\* An entry from a stack pointer exactly one frame above the bottom of the
\* stack has left its frame there.
C10_Witness ==
    /\ last.op = "run_pending_interrupts"
    /\ last.irq # {}
    /\ in_interrupt
    /\ fatal = "none"
    /\ regs["SP"] = ToWord(StackLow)
    /\ LittleEndianAt(ram, StackLow) # LittleEndianAt(ram, StackLow + 96)

\* The handler address that the firmware image holds in the vector slot at
\* address a.
VectorWordAt(a) == HandlerAddr((a - FlashBase) \div 4)

\* The signed 32-bit number that a register's word stands for.
SignedOf(w) ==
    IF w[1] >= 32768 THEN (w[1] - W16) * W16 + w[2] ELSE w[1] * W16 + w[2]

\* C11: exception entry control registers.  An exception entry for interrupt
\* irq with the vector table at B leaves PC equal to the word stored at
\* B + 4 * (irq + 16), LR equal to 0xFFFF_FFFD and IPSR equal to irq (as the
\* 32-bit two's complement word that `irq as u64` writes); the frame on the
\* stack holds the PC and LR of before the entry.
C11_EntryRegisters ==
    [][ ( /\ last'.op = "run_pending_interrupts"
          /\ last'.irq # {}
          /\ fatal' = "none" ) =>
            \A irq \in last'.irq, B \in last'.base :
                /\ regs'["PC"] = VectorWordAt(B + 4 * (irq + 16))
                /\ regs'["LR"] = <<65535, 65533>>
                /\ SignedOf(regs'["IPSR"]) = irq
                /\ LittleEndianAt(ram', ToAddr(regs'["SP"]) + 24) = regs["PC"]
                /\ LittleEndianAt(ram', ToAddr(regs'["SP"]) + 20) = regs["LR"]
                /\ in_interrupt'
      ]_vars

\* SysTick was entered through the vector table 16 slots above the usual
\* base.
C11_Witness ==
    /\ last.op = "run_pending_interrupts"
    /\ last.irq = {SYSTICK}
    /\ last.base = {FlashBase + 64}
    /\ regs["PC"] = HandlerAddr(IRQ_OFFSET + SYSTICK + 16)
    /\ SignedOf(regs["IPSR"]) = SYSTICK
    /\ in_interrupt
    /\ fatal = "none"

\* C12: end-to-end SysTick delivery.  With nothing pending, no handler
\* active, last_systick_trigger = 0, a period of 1000, PRIMASK = 0, the vector
\* table at 0x0800_0000 with 0x0800_1000 in SysTick's slot and the instruction
\* counter at 1500, one scheduling check asserts SysTick, takes it, pushes the
\* 25-word frame (SP decreases by 100), sets IPSR to SysTick's number, PC to
\* 0x0800_1000 and LR to 0xFFFF_FFFD, and ends with in_interrupt set and
\* nothing pending.
C12_SysTickEndToEnd ==
    [][ ( /\ last'.op = "run_pending_interrupts"
          /\ last'.base = {2048 * 65536}
          /\ VectorWordAt(2048 * 65536 + 4 * 15) = <<2048, 4096>>
          /\ pending = {}
          /\ ~in_interrupt
          /\ last_systick_trigger = 0
          /\ systick_period = {1000}
          /\ ~Masked
          /\ NUM_INSTRUCTIONS = 1500 ) =>
            /\ last'.fired
            /\ last_systick_trigger' = 1500
            /\ last'.irq = {SYSTICK}
            /\ ToAddr(regs'["SP"]) = ToAddr(regs["SP"]) - 100
            /\ \A i \in 1 .. Len(FrameOrder) :
                   LittleEndianAt(ram', ToAddr(regs'["SP"]) + 4 * (i - 1))
                       = regs[FrameOrder[i]]
            /\ SignedOf(regs'["IPSR"]) = SYSTICK
            /\ regs'["PC"] = <<2048, 4096>>
            /\ regs'["LR"] = <<65535, 65533>>
            /\ in_interrupt'
            /\ pending' = {}
            /\ fatal' = "none"
      ]_vars

\* The check at instruction 1500 has delivered the first SysTick.
C12_Witness ==
    /\ last.op = "run_pending_interrupts"
    /\ last.base = {FlashBase}
    /\ last.fired
    /\ last.irq = {SYSTICK}
    /\ last.pending0 = {}
    /\ systick_period = {1000}
    /\ NUM_INSTRUCTIONS = 1500
    /\ last_systick_trigger = 1500
    /\ regs["PC"] = <<2048, 4096>>
    /\ regs["SP"] = ToWord(StackTop - 100)
    /\ in_interrupt
    /\ pending = {}

\* The vector slot of irq in the table at B is mapped memory.
SlotMapped(B, irq) ==
    /\ InFlash(B + 4 * (irq + 16))
    /\ InFlash(B + 4 * (irq + 16) + 3)

\* The 100 bytes below address a are mapped memory.
FrameMappedBelow(a) == a - 100 >= StackLow /\ a <= StackTop

\* C13: fatal memory errors.  A scheduling check that has taken an interrupt
\* and finds its vector slot or one of the 100 bytes below SP unmapped ends in
\* a fatal error with PC, LR, IPSR and SP as they were and in_interrupt not
\* set; an exception exit that finds one of the 25 words from SP up unmapped
\* ends in a fatal error with in_interrupt not cleared and with every register
\* from the unreadable word on as it was; nothing runs after a fatal error.
C13_FatalMemoryErrors ==
    [][ /\ ( /\ last'.op = "run_pending_interrupts"
             /\ last'.irq # {}
             /\ \/ \E irq \in last'.irq, B \in last'.base : ~SlotMapped(B, irq)
                \/ ~FrameMappedBelow(ToAddr(regs["SP"])) ) =>
               /\ fatal' # "none"
               /\ regs'["PC"] = regs["PC"]
               /\ regs'["LR"] = regs["LR"]
               /\ regs'["IPSR"] = regs["IPSR"]
               /\ regs'["SP"] = regs["SP"]
               /\ in_interrupt' = in_interrupt
               /\ ~in_interrupt'
        /\ ( /\ last'.op = "return_from_interrupt"
             /\ MappedWords(ToAddr(regs["SP"])) < Len(FrameOrder) ) =>
               /\ fatal' # "none"
               /\ in_interrupt' = in_interrupt
               /\ \A i \in 1 .. Len(FrameOrder) :
                      i > MappedWords(ToAddr(regs["SP"])) =>
                          regs'[FrameOrder[i]] = regs[FrameOrder[i]]
               /\ regs'["SP"] = regs["SP"]
        /\ fatal # "none" => FALSE
      ]_vars

\* An entry from a stack pointer with 96 mapped bytes below it has failed at
\* its last write: no handler runs.
C13_Witness ==
    /\ last.op = "run_pending_interrupts"
    /\ last.irq # {}
    /\ last.base = {FlashBase}
    /\ fatal = "Invalid SP pointer during interrupt"
    /\ regs["SP"] = ToWord(StackLow + 96)
    /\ regs["LR"] # <<65535, 65533>>
    /\ ~in_interrupt

\* C14: SysTick disabled.  While systick_period is None, a scheduling check
\* asserts no SysTick, leaves last_systick_trigger alone and raises no error
\* in its SysTick update, whatever the instruction counter is; SysTick
\* becomes pending only by set_intr_pending(SYSTICK), and is delivered only
\* if it was pending before the check.
C14_SysTickDisabled ==
    [][ (systick_period = {}) =>
            /\ (last'.op = "run_pending_interrupts") =>
                   /\ ~last'.fired
                   /\ last_systick_trigger' = last_systick_trigger
                   /\ SysTickBit \in pending' => SysTickBit \in pending
                   /\ last'.irq = {SYSTICK} => SysTickBit \in pending
                   /\ fatal' = "none"
            /\ (SysTickBit \notin pending /\ SysTickBit \in pending') =>
                   /\ last'.op = "set_intr_pending"
                   /\ last'.irq = {SYSTICK}
            /\ last_systick_trigger' = last_systick_trigger
      ]_vars

\* With no period, a check at the highest instruction count has asserted
\* nothing.
C14_Witness ==
    /\ last.op = "run_pending_interrupts"
    /\ systick_period = {}
    /\ NUM_INSTRUCTIONS = MaxBlockInstr
    /\ last_systick_trigger = 0
    /\ pending = {}
    /\ last.pending0 = {}
    /\ fatal = "none"

\* C15: SysTick burst coalescing.  A scheduling check made when more than k
\* periods (k >= 1) have elapsed since last_systick_trigger fires once: it
\* sets last_systick_trigger to the instruction counter and leaves SysTick
\* either pending or delivered, not both; a check made with the counter still
\* at last_systick_trigger fires nothing, adds nothing to the pending set and
\* delivers no SysTick that was not pending.
C15_BurstCoalescing ==
    [][ (last'.op = "run_pending_interrupts") =>
            \A P \in systick_period :
                /\ (\E k \in 1 .. 3 :
                        NUM_INSTRUCTIONS - last_systick_trigger > k * P) =>
                       /\ last'.fired
                       /\ last_systick_trigger' = NUM_INSTRUCTIONS
                       /\ (SysTickBit \in pending') # (last'.irq = {SYSTICK})
                /\ (NUM_INSTRUCTIONS = last_systick_trigger) =>
                       /\ ~last'.fired
                       /\ last_systick_trigger' = last_systick_trigger
                       /\ pending' \subseteq pending
                       /\ last'.irq = {SYSTICK} => SysTickBit \in pending
      ]_vars

\* More than two periods elapsed before the check at instruction 2500, which
\* delivered one SysTick; the check that followed asserted nothing.
C15_Witness ==
    /\ last.op = "run_pending_interrupts"
    /\ ~last.fired
    /\ systick_period = {1000}
    /\ NUM_INSTRUCTIONS = 2500
    /\ last_systick_trigger = 2500
    /\ in_interrupt
    /\ SignedOf(regs["IPSR"]) = SYSTICK
    /\ pending = {}

\* C16 as stated: a scheduling check made with PRIMASK set, or with an empty
\* pending set, or while a handler is active writes no register and no memory
\* and leaves in_interrupt as it was.
C16_NoOpChecks ==
    [][ ( /\ last'.op = "run_pending_interrupts"
          /\ (Masked \/ pending = {} \/ in_interrupt) ) => NoEntry
      ]_vars

\* C16, amended: a scheduling check made with PRIMASK set, or while a handler
\* is active, or with a pending set that is empty after the SysTick update of
\* that check, writes no register and no memory and leaves in_interrupt as it
\* was.
C16_NoOpChecksAfterSysTick ==
    [][ ( /\ last'.op = "run_pending_interrupts"
          /\ (Masked \/ in_interrupt \/ PendingAfterSysTick = {}) ) =>
            /\ NoEntry
            /\ fatal' = "none"
      ]_vars

\* An unmasked check outside a handler, with a period configured and the
\* instruction counter advanced, found nothing pending and entered nothing.
C16_Witness ==
    /\ last.op = "run_pending_interrupts"
    /\ last.pending0 = {}
    /\ ~last.fired
    /\ last.irq = {}
    /\ systick_period # {}
    /\ NUM_INSTRUCTIONS > 0
    /\ ~Masked
    /\ ~in_interrupt
    /\ pending = {}

\* C17: inert register bank.  A read of the register bank, at any offset,
\* through the controller or its wrapper, returns 0, and a write of any value
\* is ignored: neither changes pending, in_interrupt, systick_period or
\* last_systick_trigger (nor a CPU register or the stack).
C17_InertRegisterBank ==
    [][ /\ (last'.op = "read") => last'.ret = {<<0, 0>>}
        /\ (last'.op \in {"read", "write"}) =>
               /\ pending' = pending
               /\ in_interrupt' = in_interrupt
               /\ systick_period' = systick_period
               /\ last_systick_trigger' = last_systick_trigger
               /\ regs' = regs
               /\ ram' = ram
               /\ fatal' = "none"
      ]_vars

\* A write to the register bank was made during a handler, with an interrupt
\* pending and a period configured, and changed none of them.
C17_Witness ==
    /\ last.op = "write"
    /\ last.pending0 = {IRQ_OFFSET + 2}
    /\ pending = {IRQ_OFFSET + 2}
    /\ in_interrupt
    /\ systick_period # {}
    /\ fatal = "none"

\* C19: the SysTick update runs before the eligibility test.  On a
\* scheduling check with a period P configured and more than P instructions
\* elapsed, the update fires and last_systick_trigger becomes the instruction
\* counter, whether or not an entry is possible; when PRIMASK is set or a
\* handler is active, the check enters nothing and leaves SysTick pending
\* next to what was pending.
C19_SysTickBeforeEligibility ==
    [][ (last'.op = "run_pending_interrupts") =>
            \A P \in systick_period :
                (NUM_INSTRUCTIONS - last_systick_trigger > P) =>
                    /\ last'.fired
                    /\ last_systick_trigger' = NUM_INSTRUCTIONS
                    /\ (Masked \/ in_interrupt) =>
                           /\ NoEntry
                           /\ pending' = pending \cup {SysTickBit}
      ]_vars

\* An unmasked check made during a handler has asserted SysTick and moved
\* the trigger point.
C19_Witness ==
    /\ last.op = "run_pending_interrupts"
    /\ in_interrupt
    /\ ~Masked
    /\ last.fired
    /\ last.irq = {}
    /\ SysTickBit \notin last.pending0
    /\ SysTickBit \in pending
    /\ last_systick_trigger = NUM_INSTRUCTIONS

\* C20: no lost interrupt.  A pending interrupt leaves the pending set only
\* in a scheduling check, made unmasked and outside a handler, that takes
\* that interrupt for exception entry; no assertion, delivery of another
\* interrupt, exception exit, masked or in-service check, SysTick update or
\* register-bank access removes it.
C20_NoLostInterrupt ==
    [][ \A b \in pending :
            (b \notin pending') =>
                /\ last'.op = "run_pending_interrupts"
                /\ last'.irq = {b - IRQ_OFFSET}
                /\ ~Masked
                /\ ~in_interrupt
                /\ in_interrupt'
      ]_vars

\* An exception exit was made while interrupt 2 was pending, and it still
\* is.
C20_Witness ==
    /\ last.op = "return_from_interrupt"
    /\ last.pending0 = {IRQ_OFFSET + 2}
    /\ pending = {IRQ_OFFSET + 2}
    /\ ~in_interrupt
    /\ fatal = "none"

\* C18: exclusive access during frame transfer.  From the first to the last
\* access of a push sequence and of a pop sequence, the write back of SP
\* included, the controller holds the mutable borrow of the CPU facade, so
\* that a partially pushed or popped frame exists only under that borrow; and
\* the facade is not borrowed whenever the controller has returned to the
\* driver.
C18_ExclusiveAccess ==
    (fatal = "none") =>
        /\ (pc.at \in {"push_loop", "pop_loop"}) => uc_borrow = "mut"
        /\ (pc.at = "push_loop") => regs["SP"] = ToWord(pc.sp + 4 * (pc.i - 1))
        /\ (pc.at = "pop_loop") => regs["SP"] = ToWord(pc.sp - 4 * (pc.i - 1))
        /\ (pc = Idle) => uc_borrow = "free"

\* Twelve registers of a frame are pushed and SP is not yet written back,
\* under the mutable borrow.
C18_Witness ==
    /\ pc.at = "push_loop"
    /\ pc.i = 13
    /\ uc_borrow = "mut"
    /\ ToAddr(regs["SP"]) = pc.sp + 48
    /\ fatal = "none"

\* C21: no spurious or duplicated delivery.  Each exception entry for an
\* interrupt n follows an assertion of n (a set_intr_pending(n) that returned,
\* or a SysTick period expiry for n = SYSTICK) made after the previous entry
\* for n, and the pending bit of n is clear when the handler of n starts.
C21_EntryFollowsAssertion ==
    [][ last'.op = "run_pending_interrupts" =>
            \A n \in last'.irq :
                /\ n \in armed \cup (IF last'.fired THEN {SYSTICK} ELSE {})
                /\ n + IRQ_OFFSET \notin pending'
      ]_vars

\* The driver asserts an interrupt numbered below the one at bit b.
LowerAssertion(b) ==
    /\ last'.op = "set_intr_pending"
    /\ \E n \in last'.irq : n + IRQ_OFFSET < b

\* The exception entry for the interrupt at bit b has just been performed.
Delivered(b) ==
    /\ last.op = "run_pending_interrupts"
    /\ last.irq = {b - IRQ_OFFSET}
    /\ in_interrupt
    /\ fatal = "none"

\* C22: eventual delivery.  When scheduling checks keep occurring, PRIMASK is
\* clear again and again at a check and every handler triggers its exception
\* exit, an interrupt that is pending is eventually entered, provided that the
\* interrupts numbered below it are asserted only finitely often.
C22_EventualDelivery ==
    \A b \in { irq + IRQ_OFFSET : irq \in SchedIrqs } :
        (<>[][~LowerAssertion(b)]_vars) => ((b \in pending) ~> Delivered(b))

\* The device interrupt is entered right after the handler of PendSV, behind
\* which it has waited.
C22_Witness ==
    /\ Delivered(IRQ_OFFSET + 2)
    /\ \E s \in snap : s.regs0["IPSR"] = IrqAsWord(PENDSV)

\* C23: SysTick bookkeeping bound.  From last_systick_trigger = 0, with an
\* instruction counter that never decreases and no writer of the field but
\* the controller, last_systick_trigger never decreases and never exceeds the
\* instruction counter, so that the subtraction
\* NUM_INSTRUCTIONS - last_systick_trigger of a scheduling check never
\* underflows.
C23_SysTickBookkeeping ==
    [][ /\ NUM_INSTRUCTIONS' >= NUM_INSTRUCTIONS
        /\ last_systick_trigger <= NUM_INSTRUCTIONS
        /\ last_systick_trigger' >= last_systick_trigger
        /\ last_systick_trigger' <= NUM_INSTRUCTIONS'
        /\ fatal' # "subtract overflow"
      ]_vars

\* A scheduling check made after the counter has moved past an earlier
\* trigger point: the subtraction is computed and SysTick is not due.
C23_Witness ==
    /\ last.op = "run_pending_interrupts"
    /\ ~last.fired
    /\ systick_period # {}
    /\ last_systick_trigger > 0
    /\ last_systick_trigger < NUM_INSTRUCTIONS
    /\ fatal = "none"

====
